---- MODULE Spec2Model ----
(***************************************************************************)
(* Webhook intake backend of the establishment registry (src/main.py,      *)
(* src/database.py, src/airtable_service.py).                              *)
(*                                                                         *)
(* Spec     : the two HTTP handlers that mutate the store (POST /webhook   *)
(*            and POST /establishments/{id}/generate-payment) running as   *)
(*            concurrent requests against one shared PostgreSQL table.     *)
(*            A handler is split only where it commits a transaction or    *)
(*            calls an external collaborator (file system, payment         *)
(*            provider): between such points nothing it does is visible    *)
(*            to another request.  The store itself is taken as reliable   *)
(*            (a commit of a row that satisfies the declared schema        *)
(*            succeeds).  Webhook requests overlap freely with each other  *)
(*            and with generate-payment requests; generate-payment         *)
(*            requests follow one another.                                 *)
(* SpecPdf  : the vertical cursor of generate_establishment_pdf while it   *)
(*            lays out the extra form fields.                              *)
(***************************************************************************)
EXTENDS Integers, Sequences, FiniteSets, TLC

VARIABLES
    establishments,  \* table "establishments": id -> row
    id_seq,          \* last value handed out by the serial primary key
    files,           \* files present in the pdfs/ directory
    pref_count,      \* preferences created at the payment provider so far
    wpc,             \* webhook request -> position in handle_webhook
    wdata,           \* webhook request -> parsed payload (data)
    wrec,            \* webhook request -> id of its db_establishment
    wpdf,            \* webhook request -> local variable pdf_path
    wresp,           \* webhook request -> response delivered to the caller
    render_calls,    \* webhook request -> calls of generate_establishment_pdf
    rendered,        \* ids for which generate_establishment_pdf returned a path
    pay_count,       \* generate-payment requests received so far
    ppc,             \* current generate-payment request: position in the handler
    pid,             \* ... establishment_id of its URL
    pairtable,       \* ... what the price service answered
    pmp,             \* ... whether the provider call succeeded
    pissued,         \* ... calls made to the payment provider
    ppref,           \* ... preference_data the provider accepted, if any
    presp,           \* ... response delivered to the caller
    y_position,      \* renderer: vertical cursor
    page,            \* renderer: pages started with showPage
    drawn,           \* renderer: cursor positions of the lines of the last field
    field_count      \* renderer: extra fields laid out so far

pipeVars == <<establishments, id_seq, files, pref_count, wpc, wdata, wrec, wpdf,
              wresp, render_calls, rendered, pay_count, ppc, pid, pairtable, pmp,
              pissued, ppref, presp>>
pdfVars == <<y_position, page, drawn, field_count>>
vars == <<pipeVars, pdfVars>>

-----------------------------------------------------------------------------
(* Bounds of the model *)

NumWebhooks == 2          \* POST /webhook requests, all of which may overlap
MaxPayments == 2          \* generate-payment requests, served one after another

WebReqs == 1..NumWebhooks

-----------------------------------------------------------------------------
(* Values *)

None == "<None>"          \* Python None in a payload or a string column
NULL == <<>>              \* SQL NULL / Python None of pdf_path and payment_link

RequiredFields == <<"name", "owner_email", "cuit", "address">>

\* Submitted values per key; a key that is absent reads as None (dict.get).
FieldValues(f) ==
    CASE f = "name"        -> {"", "Campo Norte", "Campo Sur"}
      [] f = "owner_email" -> {None, "a@b.com"}
      [] f = "cuit"        -> {"20-12345678-9"}
      [] f = "address"     -> {"Ruta 40 km 10"}

Payloads ==
    [name : FieldValues("name"), owner_email : FieldValues("owner_email"),
     cuit : FieldValues("cuit"), address : FieldValues("address")]

\* Python truthiness of an optional string: "not value"
Falsy(v) == v \in {None, ""}

NoData == [name |-> None, owner_email |-> None, cuit |-> None, address |-> None]
NoResponse == [status |-> 0, detail |-> <<>>, body |-> <<>>]

-----------------------------------------------------------------------------
(* handle_webhook: mapping and validation *)

establishment_data(data) ==
    [name |-> data.name, owner_email |-> data.owner_email,
     cuit |-> data.cuit, address |-> data.address]

RECURSIVE MissingFrom(_, _)
MissingFrom(ed, i) ==
    IF i > Len(RequiredFields) THEN <<>>
    ELSE (IF Falsy(ed[RequiredFields[i]]) THEN <<RequiredFields[i]>> ELSE <<>>)
         \o MissingFrom(ed, i + 1)

missing_fields(data) == MissingFrom(establishment_data(data), 1)

\* An HTTPException as a value: status code and the parts of its detail
HTTPException(code, detail) == [status |-> code, detail |-> detail, body |-> <<>>]

MissingFieldsError(data) ==
    HTTPException(400, <<"Missing required fields">> \o missing_fields(data))

RenderNoneError == HTTPException(500, <<"Failed to generate PDF certificate">>)

\* except Exception as pdf_error: raise HTTPException(500, f"Failed to generate PDF: {pdf_error}")
InnerExcept(exc) ==
    HTTPException(500, <<"Failed to generate PDF", ToString(exc.status)>> \o exc.detail)

\* except Exception as e: db.rollback(); raise HTTPException(500, f"Failed to process webhook: {e}")
\* HTTPException derives from Exception, so this clause also receives the
\* HTTPExceptions raised inside the try block.
OuterExcept(exc) ==
    HTTPException(500, <<"Failed to process webhook", ToString(exc.status)>> \o exc.detail)

-----------------------------------------------------------------------------
(* The store *)

\* The sequence hands out its last value again instead of advancing.
NextValStuck(seq) == IF seq = 0 THEN 1 ELSE seq

NextVal(seq) == seq + 1

NewRow(data) ==
    [name |-> data.name, owner_email |-> data.owner_email, cuit |-> data.cuit,
     address |-> data.address, payment_link |-> NULL, pdf_path |-> NULL]

\* db.add(db_establishment); db.commit(): the table declares no uniqueness
\* constraint besides the primary key, every other column is nullable.
InsertRow(tbl, id, data) ==
    [i \in DOMAIN tbl \cup {id} |-> IF i = id THEN NewRow(data) ELSE tbl[i]]

\* db_establishment.pdf_path = pdf_path; db.commit(): the unit of work writes
\* the one attribute that was assigned.
\* The update addresses the newest row instead of the request's own row.
UpdatePdfPathNewest(tbl, id, path) ==
    [tbl EXCEPT ![CHOOSE m \in DOMAIN tbl : \A i \in DOMAIN tbl : i <= m].pdf_path = path]

UpdatePdfPath(tbl, id, path) == [tbl EXCEPT ![id].pdf_path = path]

\* The update writes the whole row back from a freshly built object.
UpdatePaymentLinkWholeRow(tbl, id, link) ==
    [tbl EXCEPT ![id] = [NewRow(@) EXCEPT !.payment_link = link]]

UpdatePaymentLink(tbl, id, link) == [tbl EXCEPT ![id].payment_link = link]

\* db.rollback(): discards what the session has not committed; the session
\* holds nothing uncommitted where the handler calls it.
\* The rollback undoes the first commit as well.
RollbackDeletes(tbl, id) == [i \in DOMAIN tbl \ {id} |-> tbl[i]]

Rollback(tbl, id) == tbl

-----------------------------------------------------------------------------
(* generate_establishment_pdf: the file it writes *)

\* The file name does not depend on the id.
file_name_fixed(id) == <<"pdfs/registro_", 0, ".pdf">>

file_name(id) == <<"pdfs/registro_", id, ".pdf">>

EstablishmentResponse(tbl, id, pdf_path) ==
    [status |-> 200, detail |-> <<>>,
     body |-> <<[id |-> id, name |-> tbl[id].name, owner_email |-> tbl[id].owner_email,
                 cuit |-> tbl[id].cuit, address |-> tbl[id].address,
                 pdf_path |-> pdf_path]>>]

-----------------------------------------------------------------------------
(* POST /webhook *)

\* Requests are numbered in the order in which they arrive.
WebhookArrives(p) ==
    /\ wpc[p] = "idle"
    /\ \A o \in WebReqs : o < p => wpc[o] # "idle"

payVarsUnchanged ==
    UNCHANGED <<pref_count, pay_count, ppc, pid, pairtable, pmp, pissued, ppref, presp>>

\* Lines 249-281 and 339-347: a required field is missing.
WebhookInvalid(p, data) ==
    /\ WebhookArrives(p)
    /\ missing_fields(data) # <<>>
    /\ wdata' = [wdata EXCEPT ![p] = data]
    /\ establishments' = Rollback(establishments, wrec[p])
    /\ wresp' = [wresp EXCEPT ![p] = OuterExcept(MissingFieldsError(data))]
    /\ wpc' = [wpc EXCEPT ![p] = "done"]
    /\ UNCHANGED <<id_seq, files, wrec, wpdf, render_calls, rendered>>
    /\ payVarsUnchanged
    /\ UNCHANGED pdfVars

\* Lines 249-290: all four fields present; first commit.
WebhookInsert(p, data) ==
    /\ WebhookArrives(p)
    /\ missing_fields(data) = <<>>
    /\ wdata' = [wdata EXCEPT ![p] = data]
    /\ id_seq' = NextVal(id_seq)
    /\ establishments' = InsertRow(establishments, id_seq', establishment_data(data))
    /\ wrec' = [wrec EXCEPT ![p] = id_seq']
    /\ wpc' = [wpc EXCEPT ![p] = "inserted"]
    /\ UNCHANGED <<files, wpdf, wresp, render_calls, rendered>>
    /\ payVarsUnchanged
    /\ UNCHANGED pdfVars

\* Lines 297-302 with generate_establishment_pdf (129-237) returning file_name.
WebhookRenderOk(p) ==
    /\ wpc[p] = "inserted"
    /\ render_calls' = [render_calls EXCEPT ![p] = @ + 1]
    /\ files' = files \cup {file_name(wrec[p])}
    /\ rendered' = rendered \cup {wrec[p]}
    /\ wpdf' = [wpdf EXCEPT ![p] = file_name(wrec[p])]
    /\ wpc' = [wpc EXCEPT ![p] = "rendered"]
    /\ UNCHANGED <<establishments, id_seq, wdata, wrec, wresp>>
    /\ payVarsUnchanged
    /\ UNCHANGED pdfVars

\* Lines 297-322 and 339-347 with generate_establishment_pdf (238-242)
\* returning None; the file may or may not have been written in part.
WebhookRenderFail(p, partial) ==
    /\ wpc[p] = "inserted"
    /\ render_calls' = [render_calls EXCEPT ![p] = @ + 1]
    /\ files' = IF partial THEN files \cup {file_name(wrec[p])} ELSE files
    /\ establishments' = Rollback(establishments, wrec[p])
    /\ wresp' = [wresp EXCEPT ![p] = OuterExcept(InnerExcept(RenderNoneError))]
    /\ wpc' = [wpc EXCEPT ![p] = "done"]
    /\ UNCHANGED <<id_seq, wdata, wrec, wpdf, rendered>>
    /\ payVarsUnchanged
    /\ UNCHANGED pdfVars

\* Lines 303-308 and 324-331: second commit and the response.
WebhookCommitPdf(p) ==
    /\ wpc[p] = "rendered"
    /\ establishments' = UpdatePdfPath(establishments, wrec[p], wpdf[p])
    /\ wresp' = [wresp EXCEPT ![p] = EstablishmentResponse(establishments', wrec[p], wpdf[p])]
    /\ wpc' = [wpc EXCEPT ![p] = "done"]
    /\ UNCHANGED <<id_seq, files, wdata, wrec, wpdf, render_calls, rendered>>
    /\ payVarsUnchanged
    /\ UNCHANGED pdfVars

-----------------------------------------------------------------------------
(* get_current_price (airtable_service.py) *)

DefaultPrice == 10
Raised == -1              \* stands for an exception leaving a function

\* What airtable.get_all can do: raise, or return a list of records; the
\* first record may lack 'Valores', or hold a value float() rejects.
AirtableAnswers ==
    { [raises |-> TRUE,  records |-> <<>>],
      [raises |-> FALSE, records |-> <<>>],
      [raises |-> FALSE, records |-> <<[has_valores |-> FALSE, numeric |-> FALSE, valores |-> 0]>>],
      [raises |-> FALSE, records |-> <<[has_valores |-> TRUE, numeric |-> FALSE, valores |-> 0]>>],
      [raises |-> FALSE, records |-> <<[has_valores |-> TRUE, numeric |-> TRUE, valores |-> 25]>>] }

NoAnswer == [raises |-> FALSE, records |-> <<>>]

\* The except clause lets the exception of the fetch escape.
get_current_price_reraise(ans) ==
    IF ans.raises THEN Raised
    ELSE IF ans.records # <<>> /\ ans.records[1].has_valores /\ ans.records[1].numeric
         THEN ans.records[1].valores
         ELSE DefaultPrice

get_current_price(ans) ==
    IF ans.raises THEN DefaultPrice                       \* except Exception
    ELSE IF ans.records # <<>> /\ ans.records[1].has_valores
         THEN (IF ans.records[1].numeric
               THEN ans.records[1].valores
               ELSE DefaultPrice)                         \* float() raised: except Exception
         ELSE DefaultPrice

-----------------------------------------------------------------------------
(* create_mercadopago_preference and POST /establishments/{id}/generate-payment *)

init_point(n) == <<"init_point", n>>

preference_data(row, id, price) ==
    [title |-> row.name, unit_price |-> price, external_reference |-> id]

\* Returns the link, or None when anything inside its try block raised:
\* the price lookup, the provider call (mp_ok = FALSE), or the response
\* lacking "init_point".
\* The except clause returns a link although the provider call failed.
create_mercadopago_preference_nofail(ans, mp_ok, n) == init_point(n)

create_mercadopago_preference(ans, mp_ok, n) ==
    IF get_current_price(ans) = Raised THEN NULL
    ELSE IF mp_ok THEN init_point(n) ELSE NULL

webVarsUnchanged ==
    UNCHANGED <<id_seq, files, wpc, wdata, wrec, wpdf, wresp, render_calls, rendered>>

\* A new request may arrive once the previous one has been answered.
PayArrives ==
    /\ ppc \in {"idle", "done"}
    /\ pay_count < MaxPayments
    /\ pay_count' = pay_count + 1

\* Lines 354-356: no row with that id.
PayNotFound(id) ==
    /\ PayArrives
    /\ id \notin DOMAIN establishments
    /\ pid' = id
    /\ presp' = HTTPException(404, <<"Establishment not found">>)
    /\ ppc' = "done"
    /\ pairtable' = NoAnswer
    /\ pmp' = FALSE
    /\ pissued' = 0
    /\ ppref' = <<>>
    /\ UNCHANGED <<establishments, pref_count>>
    /\ webVarsUnchanged
    /\ UNCHANGED pdfVars

\* Line 354: the row is loaded into the session.
PayLookup(id) ==
    /\ PayArrives
    /\ id \in DOMAIN establishments
    /\ pid' = id
    /\ ppc' = "found"
    /\ presp' = NoResponse
    /\ pairtable' = NoAnswer
    /\ pmp' = FALSE
    /\ pissued' = 0
    /\ ppref' = <<>>
    /\ UNCHANGED <<establishments, pref_count>>
    /\ webVarsUnchanged
    /\ UNCHANGED pdfVars

\* Lines 358-366: issue the link, then either report the failure or commit it.
PayIssue(ans, mp_ok) ==
    /\ ppc = "found"
    /\ LET n == pref_count + 1
           payment_link == create_mercadopago_preference(ans, mp_ok, n)
       IN /\ IF mp_ok /\ get_current_price(ans) # Raised
             THEN /\ pref_count' = n
                  /\ ppref' = <<preference_data(establishments[pid], pid,
                                                get_current_price(ans))>>
             ELSE UNCHANGED <<pref_count, ppref>>
          /\ IF payment_link = NULL
             THEN /\ presp' = HTTPException(500, <<"Failed to generate payment link">>)
                  /\ UNCHANGED establishments
             ELSE /\ establishments' = UpdatePaymentLink(establishments, pid, payment_link)
                  /\ presp' = [status |-> 200, detail |-> <<>>, body |-> <<payment_link>>]
    /\ pairtable' = ans
    /\ pmp' = mp_ok
    /\ pissued' = pissued + 1
    /\ ppc' = "done"
    /\ UNCHANGED <<pid, pay_count>>
    /\ webVarsUnchanged
    /\ UNCHANGED pdfVars

-----------------------------------------------------------------------------
(* generate_establishment_pdf: layout of the extra fields *)

MaxFields == 8            \* extra fields of one submission
MaxWords == 4             \* words of one submitted value

PageHeight == 792         \* reportlab.lib.pagesizes.letter = (612, 792)
BottomMargin == 50
LineWidth == 80
LineStep == 15

\* A submitted value is the sequence of the lengths of its words, the words
\* separated by single spaces.
WordLens == {30, 45, 85}
Values == UNION {[1..n -> WordLens] : n \in 1..MaxWords}

RECURSIVE SumLens(_)
SumLens(words) == IF words = <<>> THEN 0 ELSE Head(words) + SumLens(Tail(words))

\* len(value_str)
StrLen(words) == SumLens(words) + Len(words) - 1

\* Lines 152-190: cursor after the title, the id, the date, the main fields
\* (one line for each that is non-empty) and the heading of the extras.
StartY(ed) ==
    LET shown == Cardinality({i \in 1..Len(RequiredFields) : ~Falsy(ed[RequiredFields[i]])})
    IN PageHeight - 120 - 30 - 20 - 30 - 20 - 18 * shown - 10 - 20

\* Lines 205-218: the wrap loop. cur is len(current_line); st holds the
\* cursor and the positions at which lines were drawn.
RECURSIVE WrapWords(_, _, _)
WrapWords(words, cur, st) ==
    IF words = <<>>
    THEN (IF cur > 0                                    \* if current_line.strip()
          THEN [y |-> st.y - LineStep, drawn |-> Append(st.drawn, st.y)]
          ELSE st)
    ELSE IF cur + Head(words) < LineWidth
         THEN WrapWords(Tail(words), cur + Head(words) + 1, st)
         ELSE WrapWords(Tail(words), 2 + Head(words) + 1,
                        IF cur > 0                      \* if current_line
                        THEN [y |-> st.y - LineStep, drawn |-> Append(st.drawn, st.y)]
                        ELSE st)

\* Lines 202-221: the lines of one field drawn from cursor y.
draw_field(words, y) ==
    IF StrLen(words) > LineWidth
    THEN WrapWords(words, 0, [y |-> y, drawn |-> <<>>])
    ELSE [y |-> y - LineStep, drawn |-> <<y>>]

\* Lines 196-227: one iteration of the loop for a key that is shown.
RenderField(words) ==
    /\ field_count < MaxFields
    /\ LET st == draw_field(words, y_position)
       IN /\ drawn' = st.drawn
          /\ IF st.y < BottomMargin                     \* check if we need a new page
             THEN /\ page' = page + 1
                  /\ y_position' = PageHeight - 50
             ELSE /\ page' = page
                  /\ y_position' = st.y
    /\ field_count' = field_count + 1
    /\ UNCHANGED pipeVars

\* Line 197: a key of the exclusion set, or one whose value is empty.
RenderSkip ==
    /\ field_count < MaxFields
    /\ field_count' = field_count + 1
    /\ drawn' = <<>>
    /\ UNCHANGED <<y_position, page>>
    /\ UNCHANGED pipeVars

-----------------------------------------------------------------------------
(* Specifications *)

InitPipe ==
    /\ establishments = <<>>
    /\ id_seq = 0
    /\ files = {}
    /\ pref_count = 0
    /\ wpc = [p \in WebReqs |-> "idle"]
    /\ wdata = [p \in WebReqs |-> NoData]
    /\ wrec = [p \in WebReqs |-> 0]
    /\ wpdf = [p \in WebReqs |-> NULL]
    /\ wresp = [p \in WebReqs |-> NoResponse]
    /\ render_calls = [p \in WebReqs |-> 0]
    /\ rendered = {}
    /\ pay_count = 0
    /\ ppc = "idle"
    /\ pid = 0
    /\ pairtable = NoAnswer
    /\ pmp = FALSE
    /\ pissued = 0
    /\ ppref = <<>>
    /\ presp = NoResponse

ValidPayloads == {d \in Payloads : missing_fields(d) = <<>>}

InitRender ==
    /\ \E d \in ValidPayloads : y_position = StartY(establishment_data(d))
    /\ page = 1
    /\ drawn = <<>>
    /\ field_count = 0

Init == InitPipe /\ InitRender

Next ==
    \/ \E p \in WebReqs, data \in Payloads : WebhookInvalid(p, data)
    \/ \E p \in WebReqs, data \in Payloads : WebhookInsert(p, data)
    \/ \E p \in WebReqs : WebhookRenderOk(p)
    \/ \E p \in WebReqs, partial \in BOOLEAN : WebhookRenderFail(p, partial)
    \/ \E p \in WebReqs : WebhookCommitPdf(p)
    \/ \E id \in WebReqs : PayNotFound(id)
    \/ \E id \in WebReqs : PayLookup(id)
    \/ \E ans \in AirtableAnswers, mp_ok \in BOOLEAN : PayIssue(ans, mp_ok)

Spec == Init /\ [][Next]_vars

NextPdf ==
    \/ \E words \in Values : RenderField(words)
    \/ RenderSkip

SpecPdf == Init /\ [][NextPdf]_vars

-----------------------------------------------------------------------------
(* Properties *)

Valid(p) == missing_fields(wdata[p]) = <<>>
InSeq(x, seq) == \E i \in 1..Len(seq) : seq[i] = x
Rows == DOMAIN establishments
CoreOf(row) ==
    [name |-> row.name, owner_email |-> row.owner_email,
     cuit |-> row.cuit, address |-> row.address]
PathOf(id) == <<"pdfs/registro_", id, ".pdf">>

\* C1: a POST /webhook submission with a missing or empty required field is
\* answered with status 400, the detail names every missing field, and the
\* request creates no record.
C1_MissingFieldsAnswered400 ==
    \A p \in WebReqs :
        (wpc[p] = "done" /\ ~Valid(p)) =>
            /\ wresp[p].status = 400
            /\ \A i \in 1..Len(missing_fields(wdata[p])) :
                   InSeq(missing_fields(wdata[p])[i], wresp[p].detail)
            /\ wrec[p] = 0

C2_OneRecordPerValid ==
    /\ \A p \in WebReqs :
          (wpc[p] # "idle" /\ Valid(p)) =>
              /\ wrec[p] \in Rows
              /\ \A o \in WebReqs : o # p => wrec[o] # wrec[p]
    /\ Cardinality(Rows) = Cardinality({p \in WebReqs : wpc[p] # "idle" /\ Valid(p)})
    /\ \A p \in WebReqs :
          (wpc[p] = "done" /\ Valid(p)) =>
              /\ establishments[wrec[p]].pdf_path # NULL <=> wrec[p] \in rendered
              /\ establishments[wrec[p]].pdf_path # NULL =>
                     establishments[wrec[p]].pdf_path \in files

C2_FreshId ==
    \A p \in WebReqs :
        wrec'[p] # wrec[p] =>
            /\ wrec'[p] \notin Rows
            /\ wrec'[p] > id_seq
            /\ Rows' = Rows \cup {wrec'[p]}

C3_RenderFailureKeepsRecord ==
    \A p \in WebReqs :
        (wpc[p] = "done" /\ Valid(p) /\ wrec[p] \notin rendered) =>
            /\ wresp[p].status = 500
            /\ wrec[p] \in Rows
            /\ CoreOf(establishments[wrec[p]]) = establishment_data(wdata[p])
            /\ establishments[wrec[p]].pdf_path = NULL
            /\ render_calls[p] = 1

C3_Witness ==
    \E p \in WebReqs :
        /\ wpc[p] = "done" /\ Valid(p) /\ wrec[p] \notin rendered
        /\ render_calls[p] = 1 /\ wresp[p].status = 500

C4_NoDeletion ==
    \A id \in Rows :
        /\ id \in Rows'
        /\ CoreOf(establishments'[id]) = CoreOf(establishments[id])

C4_PdfPathSetOnce ==
    \A id \in Rows :
        establishments[id].pdf_path # NULL =>
            establishments'[id].pdf_path = establishments[id].pdf_path

C5_PdfPathOwnId ==
    \A id \in Rows :
        establishments[id].pdf_path # NULL =>
            /\ id \in rendered
            /\ establishments[id].pdf_path = PathOf(id)
            /\ \A o \in Rows :
                   o # id => establishments[o].pdf_path # establishments[id].pdf_path

C5_Witness ==
    \E id \in Rows, o \in Rows :
        /\ id # o
        /\ establishments[id].pdf_path # NULL
        /\ establishments[o].pdf_path # NULL

C6_Step ==
    /\ pay_count' # pay_count =>
          /\ presp'.status = 404 <=> pid' \notin Rows
          /\ establishments' = establishments
    /\ (ppc = "found" /\ ppc' = "done") =>
          /\ pissued' = 1
          /\ presp'.status = 500 <=> ~pmp'
          /\ ~pmp' => establishments' = establishments
          /\ pmp' =>
                /\ presp' = [status |-> 200, detail |-> <<>>,
                             body |-> <<establishments'[pid].payment_link>>]
                /\ establishments'[pid].payment_link # NULL
                /\ establishments' =
                       [establishments EXCEPT ![pid].payment_link =
                                                  establishments'[pid].payment_link]

\* C6: generate-payment answers 404 and changes nothing when the record
\* does not exist; when issuance fails it answers 500 after a single
\* attempt and leaves payment_link as it was; payment_link is written only
\* when issuance returned a link.
C6_PaymentFrame == [][C6_Step]_vars

C6_Witness ==
    /\ ppc = "done" /\ pissued = 1 /\ ~pmp
    /\ presp.status = 500
    /\ establishments[pid].payment_link # NULL

\* C7: re-submitting a payload identical to one already accepted is
\* answered with 409 and creates no record.
C7_DuplicateRejected ==
    [][\A p \in WebReqs, o \in WebReqs :
          (/\ wpc[o] = "done" /\ wresp[o].status = 200
           /\ wpc[p] = "idle" /\ wpc'[p] # "idle"
           /\ wdata'[p] = wdata[o]) =>
              /\ wpc'[p] = "done"
              /\ wresp'[p].status = 409
              /\ establishments' = establishments]_vars

C8_OwnRecord ==
    /\ \A p \in WebReqs, o \in WebReqs :
          (p # o /\ wrec[p] # 0) => wrec[p] # wrec[o]
    /\ \A p \in WebReqs :
          wrec[p] # 0 =>
              /\ wrec[p] \in Rows
              /\ CoreOf(establishments[wrec[p]]) = establishment_data(wdata[p])
              /\ establishments[wrec[p]].pdf_path # NULL =>
                     /\ wpc[p] = "done"
                     /\ establishments[wrec[p]].pdf_path = PathOf(wrec[p])
    /\ \A p \in WebReqs :
          (wpc[p] = "done" /\ wresp[p].status = 200) =>
              wresp[p].body =
                  <<[id |-> wrec[p], name |-> wdata[p].name,
                     owner_email |-> wdata[p].owner_email, cuit |-> wdata[p].cuit,
                     address |-> wdata[p].address,
                     pdf_path |-> establishments[wrec[p]].pdf_path]>>

C8_WritesOwn ==
    \A id \in Rows :
        establishments'[id].pdf_path # establishments[id].pdf_path =>
            \E p \in WebReqs :
                wrec[p] = id /\ wpc[p] = "rendered" /\ wpc'[p] = "done"

\* C8: overlapping POST /webhook requests obtain pairwise distinct ids, each
\* writes pdf_path only on the record it inserted, each response carries the
\* id, core fields and pdf_path of the request's own record, and no request
\* changes the record of another.
C8_RequestsIsolated == []C8_OwnRecord /\ [][C8_WritesOwn /\ C4_NoDeletion]_vars

C8_Witness ==
    \E p \in WebReqs, o \in WebReqs :
        /\ o < p
        /\ wpc[o] = "inserted"
        /\ wpc[p] = "done" /\ wresp[p].status = 200
        /\ wdata[p] # wdata[o]

C10_NoLineBelowMargin ==
    \A i \in 1..Len(drawn) : drawn[i] >= BottomMargin

====
